---- MODULE Spec2Model ----
(***************************************************************************)
(* Model of the notebook Zuber_Project.ipynb: the code cells executed top  *)
(* to bottom by one kernel ("Run All").  A cell is one action.  An         *)
(* exception that no except clause catches stops the run: the kernel       *)
(* keeps whatever the cell had bound before the exception, and no later    *)
(* cell is executed.                                                       *)
(*                                                                         *)
(* A DataFrame is a record [loc, columns, rows, version]: loc is the       *)
(* directory the file was read from, columns the sequence of labels, rows  *)
(* the sequence of rows (tuples, positional), version the number of        *)
(* in-place assignments made to the frame since read_csv built it.         *)
(* Floats are modelled as integers (they are only compared and summed).    *)
(***************************************************************************)
EXTENDS Integers, Sequences, FiniteSets, Bags, TLC

VARIABLES
    primary,                \* the files present in the working directory
    secondary,              \* the files present in /mnt/data
    csv,                    \* the contents of the three files
    tie,                    \* how the build's sort orders rows with equal keys
    pc,                     \* the next cell to execute, "done" or "halted"
    error,                  \* the unhandled exception that stopped the run
    stdout,                 \* what the cells printed
    executed,               \* the cells executed so far, in order
    calls,                  \* the number of read_csv / to_datetime calls made
    taxi_df, neighborhood_df, rides_df,
    missing_summary_df,
    sorted_taxi_df, top_neighborhoods, charts,
    rides_saturdays, good_weather_durations, bad_weather_durations, t_stat

env == <<primary, secondary, csv, tie>>
tables == <<taxi_df, neighborhood_df, rides_df>>
aggregates == <<sorted_taxi_df, top_neighborhoods, charts>>
hypothesis == <<rides_saturdays, good_weather_durations, bad_weather_durations, t_stat>>
vars == <<env, pc, error, stdout, executed, calls, tables, missing_summary_df,
          aggregates, hypothesis>>

----------------------------------------------------------------------------
(* Bounds of the input files.                                              *)

MaxTaxi == 3            \* rows of the operator file
MaxNeigh == 11          \* rows of the neighborhood file
MaxWindowRides == 2     \* rows of the rides file, timestamps varied
MaxTestRides == 4       \* rows of the rides file, weather and duration varied

----------------------------------------------------------------------------
(* Sequences.                                                              *)

Range(s) == {s[i] : i \in DOMAIN s}

SeqsUpTo(S, n) == UNION {[1..k -> S] : k \in 0..n}

RECURSIVE SumSeq(_)
SumSeq(s) == IF s = <<>> THEN 0 ELSE Head(s) + SumSeq(Tail(s))

RECURSIVE SumSq(_)
SumSq(s) == IF s = <<>> THEN 0 ELSE Head(s) * Head(s) + SumSq(Tail(s))

\* The rows of s at which mask is TRUE, in the order of s (boolean indexing).
RECURSIVE Masked(_, _)
Masked(s, mask) ==
    IF s = <<>> THEN <<>>
    ELSE (IF Head(mask) THEN <<Head(s)>> ELSE <<>>) \o Masked(Tail(s), Tail(mask))

BagOfSeq(s) == [r \in Range(s) |-> Cardinality({i \in DOMAIN s : s[i] = r})]

----------------------------------------------------------------------------
(* Column labels.  A csv header may spell a label in any casing; the code  *)
(* looks labels up by their lower-case spelling.                           *)

Labels == {"company_name", "trips_amount", "dropoff_location_name",
           "average_trips", "start_ts", "weather_conditions", "duration_seconds"}

UpperOf == [company_name |-> "COMPANY_NAME", trips_amount |-> "TRIPS_AMOUNT",
            dropoff_location_name |-> "DROPOFF_LOCATION_NAME",
            average_trips |-> "AVERAGE_TRIPS", start_ts |-> "START_TS",
            weather_conditions |-> "WEATHER_CONDITIONS",
            duration_seconds |-> "DURATION_SECONDS"]

TitleOf == [company_name |-> "Company_Name", trips_amount |-> "Trips_Amount",
            dropoff_location_name |-> "Dropoff_Location_Name",
            average_trips |-> "Average_Trips", start_ts |-> "Start_Ts",
            weather_conditions |-> "Weather_Conditions",
            duration_seconds |-> "Duration_Seconds"]

Casings == {"lower", "Title", "UPPER"}

Spell(label, casing) ==
    CASE casing = "lower" -> label
      [] casing = "Title" -> TitleOf[label]
      [] casing = "UPPER" -> UpperOf[label]

\* str.lower() on one label.
StrLower(s) ==
    IF \E l \in Labels : s \in {l, TitleOf[l], UpperOf[l]}
    THEN CHOOSE l \in Labels : s \in {l, TitleOf[l], UpperOf[l]}
    ELSE s

----------------------------------------------------------------------------
(* Timestamps.  The csv holds start_ts as text, "y-m-d h:00:00"; a parsed  *)
(* value is a Timestamp, here the number of hours since 1970-01-01 00:00.  *)

Text(y, m, d, h) == [kind |-> "str", y |-> y, m |-> m, d |-> d, h |-> h]

\* Days from 1970-01-01 to the civil date y-m-d (proleptic Gregorian).
DaysFromCivil(y, m, d) ==
    LET yy  == IF m <= 2 THEN y - 1 ELSE y
        era == yy \div 400
        yoe == yy - era * 400
        mp  == IF m > 2 THEN m - 3 ELSE m + 9
        doy == (153 * mp + 2) \div 5 + d - 1
        doe == yoe * 365 + yoe \div 4 - yoe \div 100 + doy
    IN  era * 146097 + doe - 719468

\* pd.to_datetime on one value: text is parsed, a Timestamp is kept.
ToTimestamp(v) ==
    IF v.kind = "Timestamp" THEN v
    ELSE [kind |-> "Timestamp", hours |-> DaysFromCivil(v.y, v.m, v.d) * 24 + v.h]

\* The ISO numbering instead: Monday is 1, Sunday is 7.
IsoWeekday(ts) == (((ts.hours \div 24) + 3) % 7) + 1

\* Series.dt.dayofweek: Monday is 0, Sunday is 6 (1970-01-01 was a Thursday).
DayOfWeek(ts) == ((ts.hours \div 24) + 3) % 7

----------------------------------------------------------------------------
(* DataFrames.                                                             *)

F01 == "moved_project_sql_result_01.csv"
F04 == "moved_project_sql_result_04.csv"
F07 == "moved_project_sql_result_07.csv"
Files == {F01, F04, F07}

Unbound == [loc |-> "unbound"]
IsBound(df) == df.loc # "unbound"

\* pd.read_csv of a file that exists in directory loc.
ReadCsv(loc, file) ==
    [loc |-> loc, columns |-> csv[file].columns, rows |-> csv[file].rows, version |-> 0]

ColIndex(df, label) ==
    IF \E i \in DOMAIN df.columns : df.columns[i] = label
    THEN CHOOSE i \in DOMAIN df.columns : df.columns[i] = label
    ELSE 0

HasColumn(df, label) == ColIndex(df, label) # 0

\* df[label], a Series.
Column(df, label) == [i \in DOMAIN df.rows |-> df.rows[i][ColIndex(df, label)]]

\* df[label] = values, an assignment in place to an existing column.
SetColumn(df, label, values) ==
    [df EXCEPT !.rows = [i \in DOMAIN @ |-> [@[i] EXCEPT ![ColIndex(df, label)] = values[i]]],
               !.version = @ + 1]

\* df.columns = df.columns.str.lower()
LowerColumns(df) ==
    [df EXCEPT !.columns = [i \in DOMAIN @ |-> StrLower(@[i])], !.version = @ + 1]

\* pd.to_datetime(series)
ToDatetime(series) == [i \in DOMAIN series |-> ToTimestamp(series[i])]

\* df[mask], a new frame.
BoolIndex(df, mask) == [df EXCEPT !.rows = Masked(@, mask), !.version = 0]

Min(a, b) == IF a <= b THEN a ELSE b

\* df.head(n), a new frame.
DfHead(df, n) == [df EXCEPT !.rows = SubSeq(@, 1, Min(n, Len(@))), !.version = 0]

SetMax(S) == CHOOSE x \in S : \A y \in S : y <= x
SetMin(S) == CHOOSE x \in S : \A y \in S : x <= y

RemoveAt(s, i) == SubSeq(s, 1, i - 1) \o SubSeq(s, i + 1, Len(s))

\* The rows in non-increasing order of column k.  The default sort kind is
\* not a stable one, so rows with equal keys come out in an order the build
\* decides: t = "kept" leaves them in input order, t = "reversed" reverses them.
RECURSIVE SortRowsDesc(_, _, _)
SortRowsDesc(rows, k, t) ==
    IF rows = <<>> THEN <<>>
    ELSE LET top  == SetMax({rows[i][k] : i \in DOMAIN rows})
             ties == {i \in DOMAIN rows : rows[i][k] = top}
             pick == IF t = "kept" THEN SetMin(ties) ELSE SetMax(ties)
         IN  <<rows[pick]>> \o SortRowsDesc(RemoveAt(rows, pick), k, t)

\* df.sort_values(by=label, ascending=False), a new frame.
SortValuesDesc(df, label) ==
    [df EXCEPT !.rows = SortRowsDesc(@, ColIndex(df, label), tie), !.version = 0]

\* scipy.stats.ttest_ind(a, b, equal_var=False), the statistic alone: Welch's
\*   t = (mean(a) - mean(b)) / sqrt(var(a)/len(a) + var(b)/len(b))
\* with the sample variances (ddof = 1).  With Sa, Sb the sums and SSa, SSb the
\* sums of squares, t = d * sqrt(scale / den) exactly, where
\*   d = Sa*nb - Sb*na,  scale = (na-1)*(nb-1),
\*   den = (na*SSa - Sa^2) * nb^2 * (nb-1) + (nb*SSb - Sb^2) * na^2 * (na-1).
\* The result keeps the sign of t and t squared as the fraction sq[1] / sq[2].
\* A sample of fewer than 2 values has no variance and the result is nan;
\* two samples of zero variance give a division by zero: nan or an infinity.
Sgn(x) == IF x < 0 THEN -1 ELSE IF x > 0 THEN 1 ELSE 0

TtestInd(a, b) ==
    LET na == Len(a)
        nb == Len(b)
        d  == SumSeq(a) * nb - SumSeq(b) * na
        va == na * SumSq(a) - SumSeq(a) * SumSeq(a)
        vb == nb * SumSq(b) - SumSeq(b) * SumSeq(b)
        den == va * nb * nb * (nb - 1) + vb * na * na * (na - 1)
    IN  IF na < 2 \/ nb < 2 THEN [kind |-> "nan"]
        ELSE IF den = 0 THEN (IF d = 0 THEN [kind |-> "nan"]
                              ELSE [kind |-> "inf", sign |-> Sgn(d)])
        ELSE [kind |-> "finite", sign |-> Sgn(d),
              sq |-> <<d * d * (na - 1) * (nb - 1), den>>]

----------------------------------------------------------------------------
(* The inputs of a run: which files exist where, and what they hold.       *)

Saturday == 5
TopN == 10

DefaultTaxi == << <<"Flash Cab", 3>>, <<"Taxi Affiliation Services", 2>> >>
DefaultNeigh == << <<1, 3>>, <<2, 2>> >>
DefaultRides == << <<Text(2017, 11, 4, 12), "Good", 1>>, <<Text(2017, 11, 11, 0), "Bad", 3>> >>

BaseInput ==
    [primary |-> Files, secondary |-> {}, casing |-> [f \in Files |-> "lower"],
     taxi |-> DefaultTaxi, neigh |-> DefaultNeigh, rides |-> DefaultRides, tie |-> "kept"]

TieOrders == {"kept", "reversed"}

\* Every combination of files present in the two directories.
FsInputs ==
    {[BaseInput EXCEPT !.primary = p, !.secondary = q] : p \in SUBSET Files, q \in SUBSET Files}

\* Every casing of the three headers.
CasingInputs == {[BaseInput EXCEPT !.casing = c] : c \in [Files -> Casings]}

TaxiRows == {"Flash Cab", "Taxi Affiliation Services"} \X {1, 2}

TaxiInputs ==
    {[BaseInput EXCEPT !.taxi = t, !.tie = o] : t \in SeqsUpTo(TaxiRows, MaxTaxi), o \in TieOrders}

\* Neighborhood tables of n rows, named 1..n, whose average_trips rise, fall,
\* are all equal, or go up and down.
NeighKinds == {"rising", "falling", "equal", "mixed"}

NeighTable(kind, n) ==
    [i \in 1..n |-> <<i, CASE kind = "rising"  -> i
                           [] kind = "falling" -> n + 1 - i
                           [] kind = "equal"   -> 7
                           [] kind = "mixed"   -> (i * 3) % 4>>]

NeighInputs ==
    {[BaseInput EXCEPT !.neigh = NeighTable(k, n), !.tie = o] :
        k \in NeighKinds, n \in 0..MaxNeigh, o \in TieOrders}

\* Rides at midnight and at noon of days before, in and after November 2017.
WindowDates == {<<2016, 11, 5>>, <<2017, 10, 28>>, <<2017, 11, 1>>, <<2017, 11, 4>>,
                <<2017, 11, 25>>, <<2017, 11, 30>>, <<2017, 12, 2>>}

WindowRows == {<<Text(d[1], d[2], d[3], h), "Good", 1>> : d \in WindowDates, h \in {0, 12}}

WindowInputs == {[BaseInput EXCEPT !.rides = r] : r \in SeqsUpTo(WindowRows, MaxWindowRides)}

\* Rides of one Saturday of the window, in good and bad weather with three
\* durations and in another weather, and one ride outside the window.
TestRows == {<<Text(2017, 11, 4, 12), w, d>> : w \in {"Good", "Bad"}, d \in {1, 3, 5}}
            \cup {<<Text(2017, 11, 4, 12), "Snow", 1>>, <<Text(2017, 11, 30, 12), "Good", 3>>}

TestInputs == {[BaseInput EXCEPT !.rides = r] : r \in SeqsUpTo(TestRows, MaxTestRides)}

Inputs == FsInputs \cup CasingInputs \cup TaxiInputs \cup NeighInputs
          \cup WindowInputs \cup TestInputs

Header(file, casing) ==
    CASE file = F01 -> <<Spell("company_name", casing), Spell("trips_amount", casing)>>
      [] file = F04 -> <<Spell("dropoff_location_name", casing), Spell("average_trips", casing)>>
      [] file = F07 -> <<Spell("start_ts", casing), Spell("weather_conditions", casing),
                         Spell("duration_seconds", casing)>>

NoCalls == [read_csv |-> [k \in {"primary", "secondary"} \X Files |-> 0], to_datetime |-> 0]

Init ==
    /\ \E in \in Inputs :
        /\ primary = in.primary
        /\ secondary = in.secondary
        /\ tie = in.tie
        /\ csv = [f \in Files |->
                    [columns |-> Header(f, in.casing[f]),
                     rows |-> CASE f = F01 -> in.taxi [] f = F04 -> in.neigh [] f = F07 -> in.rides]]
    /\ pc = "imports"
    /\ error = "none"
    /\ stdout = <<>>
    /\ executed = <<>>
    /\ calls = NoCalls
    /\ taxi_df = Unbound /\ neighborhood_df = Unbound /\ rides_df = Unbound
    /\ missing_summary_df = Unbound
    /\ sorted_taxi_df = Unbound /\ top_neighborhoods = Unbound /\ charts = <<>>
    /\ rides_saturdays = Unbound
    /\ good_weather_durations = Unbound /\ bad_weather_durations = Unbound
    /\ t_stat = Unbound

----------------------------------------------------------------------------
(* The cells.                                                              *)

Order == <<F01, F04, F07>>

\* How many read_csv calls of a try block succeed before one raises
\* FileNotFoundError: the files are read in the order 01, 04, 07.
Readable(dir) ==
    IF F01 \notin dir THEN 0 ELSE IF F04 \notin dir THEN 1 ELSE IF F07 \notin dir THEN 2 ELSE 3

NotFoundMessage == "Files not found. Please ensure the file paths are correct or upload the files."

Ran(cell) == executed' = Append(executed, cell)

\* An exception no except clause catches: the run stops.
Raise(kind) == pc' = "halted" /\ error' = kind

Goto(cell) == pc' = cell /\ error' = error

CountReads(np, ns) ==
    [calls EXCEPT !.read_csv =
        [k \in DOMAIN @ |->
            @[k] + (IF \E i \in 1..3 : /\ k[2] = Order[i]
                                       /\ \/ k[1] = "primary" /\ i <= np
                                          \/ k[1] = "secondary" /\ i <= ns
                    THEN 1 ELSE 0)]]

ImportsCell ==
    /\ pc = "imports"
    /\ Ran("imports")
    /\ Goto("loader")
    /\ UNCHANGED <<env, stdout, calls, tables, missing_summary_df, aggregates, hypothesis>>

\* try: the three files of the working directory; except FileNotFoundError:
\* try: the three files of /mnt/data; except FileNotFoundError: print.
\* An assignment made before a read_csv raises stays made.
LoaderCell ==
    /\ pc = "loader"
    /\ LET np == Readable(primary)
           ns == IF np = 3 THEN 0 ELSE Readable(secondary)
           Bound(i, old) ==
               IF np = 3 THEN ReadCsv("primary", Order[i])
               ELSE IF i <= ns THEN ReadCsv("secondary", Order[i])
               ELSE IF i <= np THEN ReadCsv("primary", Order[i])
               ELSE old
       IN  /\ taxi_df' = Bound(1, taxi_df)
           /\ neighborhood_df' = Bound(2, neighborhood_df)
           /\ rides_df' = Bound(3, rides_df)
           /\ stdout' = IF np < 3 /\ ns < 3 THEN Append(stdout, NotFoundMessage) ELSE stdout
           /\ calls' = CountReads(np, ns)
    /\ Ran("loader")
    /\ Goto("load_clean")
    /\ UNCHANGED <<env, missing_summary_df, aggregates, hypothesis>>

\* The three files of the working directory again, outside any try; then
\* to_datetime on rides_df['start_ts'], then the three headers to lower case.
LoadCleanCell ==
    /\ pc = "load_clean"
    /\ Ran("load_clean")
    /\ LET np == Readable(primary)
           t0 == IF np >= 1 THEN ReadCsv("primary", F01) ELSE taxi_df
           n0 == IF np >= 2 THEN ReadCsv("primary", F04) ELSE neighborhood_df
           r0 == IF np >= 3 THEN ReadCsv("primary", F07) ELSE rides_df
       IN  IF np < 3 THEN
               /\ Raise("FileNotFoundError")
               /\ taxi_df' = t0 /\ neighborhood_df' = n0 /\ rides_df' = r0
               /\ calls' = CountReads(np, 0)
               /\ stdout' = stdout
           ELSE IF ~HasColumn(r0, "start_ts") THEN
               /\ Raise("KeyError")
               /\ taxi_df' = t0 /\ neighborhood_df' = n0 /\ rides_df' = r0
               /\ calls' = CountReads(np, 0)
               /\ stdout' = stdout
           ELSE
               /\ Goto("info")
               /\ taxi_df' = LowerColumns(t0)
               /\ neighborhood_df' = LowerColumns(n0)
               /\ rides_df' = LowerColumns(
                                 SetColumn(r0, "start_ts", ToDatetime(Column(r0, "start_ts"))))
               /\ calls' = [CountReads(np, 0) EXCEPT !.to_datetime = @ + 1]
               /\ stdout' = stdout \o <<"rides_df.head()", "taxi_df.head()", "neighborhood_df.head()">>
    /\ UNCHANGED <<env, missing_summary_df, aggregates, hypothesis>>

AllBound == IsBound(taxi_df) /\ IsBound(neighborhood_df) /\ IsBound(rides_df)

InfoCell ==
    /\ pc = "info"
    /\ Ran("info")
    /\ IF AllBound
       THEN /\ Goto("missing")
            /\ stdout' = stdout \o <<"rides_df.info()", "taxi_df.info()", "neighborhood_df.info()">>
       ELSE /\ Raise("NameError")
            /\ stdout' = stdout
    /\ UNCHANGED <<env, calls, tables, missing_summary_df, aggregates, hypothesis>>

\* isnull().sum() of each table; the modelled files hold no missing value.
MissingCell ==
    /\ pc = "missing"
    /\ Ran("missing")
    /\ IF AllBound
       THEN /\ Goto("sort_taxi")
            /\ missing_summary_df' =
                   [loc |-> "memory",
                    columns |-> <<"Dataset", "Missing Values">>,
                    rows |-> << <<"rides_df", 0>>, <<"neighborhood_df", 0>>, <<"taxi_df", 0>> >>,
                    version |-> 0]
       ELSE /\ Raise("NameError")
            /\ missing_summary_df' = missing_summary_df
    /\ UNCHANGED <<env, stdout, calls, tables, aggregates, hypothesis>>

BarChart(df, x, y, title) == [x |-> Column(df, x), height |-> Column(df, y), title |-> title]

Reverse(s) == [i \in DOMAIN s |-> s[Len(s) + 1 - i]]

\* The sort without ascending=False.
rank_by_count_ascending(df) ==
    [df EXCEPT !.rows = Reverse(SortRowsDesc(@, ColIndex(df, "trips_amount"), tie)), !.version = 0]

rank_by_count(df) == SortValuesDesc(df, "trips_amount")

SortTaxiCell ==
    /\ pc = "sort_taxi"
    /\ Ran("sort_taxi")
    /\ IF ~IsBound(taxi_df) THEN
           /\ Raise("NameError")
           /\ UNCHANGED aggregates
       ELSE IF ~HasColumn(taxi_df, "trips_amount") \/ ~HasColumn(taxi_df, "company_name") THEN
           /\ Raise("KeyError")
           /\ UNCHANGED aggregates
       ELSE
           /\ Goto("top_neigh")
           /\ sorted_taxi_df' = rank_by_count(taxi_df)
           /\ charts' = Append(charts, BarChart(rank_by_count(taxi_df), "company_name", "trips_amount",
                                   "Number of Rides by Taxi Company (November 15-16, 2017)"))
           /\ UNCHANGED top_neighborhoods
    /\ UNCHANGED <<env, stdout, calls, tables, missing_summary_df, hypothesis>>

\* The head without the sort.
top_n_unsorted(df) == DfHead(df, TopN)

top_n(df) == DfHead(SortValuesDesc(df, "average_trips"), TopN)

TopNeighCell ==
    /\ pc = "top_neigh"
    /\ Ran("top_neigh")
    /\ IF ~IsBound(neighborhood_df) THEN
           /\ Raise("NameError")
           /\ UNCHANGED aggregates
       ELSE IF ~HasColumn(neighborhood_df, "average_trips")
               \/ ~HasColumn(neighborhood_df, "dropoff_location_name") THEN
           /\ Raise("KeyError")
           /\ UNCHANGED aggregates
       ELSE
           /\ Goto("hypothesis")
           /\ top_neighborhoods' = top_n(neighborhood_df)
           /\ charts' = Append(charts, BarChart(top_n(neighborhood_df), "dropoff_location_name",
                                   "average_trips",
                                   "Top 10 Neighborhoods by Average Drop-offs (November 2017)"))
           /\ UNCHANGED sorted_taxi_df
    /\ UNCHANGED <<env, stdout, calls, tables, missing_summary_df, hypothesis>>

\* A date given as text in a comparison with a datetime column is parsed to
\* the Timestamp of that date's midnight.
WindowStart == ToTimestamp(Text(2017, 11, 1, 0))
WindowEnd == ToTimestamp(Text(2017, 11, 30, 0))

\* The mask of the filter: Saturday, and WindowStart <= start_ts <= WindowEnd.
WindowMask(df) ==
    LET ts == Column(df, "start_ts")
    IN  [i \in DOMAIN ts |-> /\ DayOfWeek(ts[i]) = Saturday
                             /\ ts[i].hours >= WindowStart.hours
                             /\ ts[i].hours <= WindowEnd.hours]

select_window(df) == BoolIndex(df, WindowMask(df))

WeatherMask(df, w) ==
    LET c == Column(df, "weather_conditions") IN [i \in DOMAIN c |-> c[i] = w]

\* The durations of the rides of df whose weather_conditions is w.
partition_by_weather(df, w) == Column(BoolIndex(df, WeatherMask(df, w)), "duration_seconds")

\* The two samples passed in the other order.
welch_t_test_swapped(df) ==
    TtestInd(partition_by_weather(df, "Bad"), partition_by_weather(df, "Good"))

\* The two samples in the order they are passed to ttest_ind.
welch_t_test(df) == TtestInd(partition_by_weather(df, "Good"), partition_by_weather(df, "Bad"))

HypothesisCell ==
    /\ pc = "hypothesis"
    /\ Ran("hypothesis")
    /\ IF ~IsBound(rides_df) THEN
           /\ Raise("NameError")
           /\ UNCHANGED <<rides_df, calls, hypothesis>>
       ELSE IF \/ ~HasColumn(rides_df, "start_ts")
               \/ ~HasColumn(rides_df, "weather_conditions")
               \/ ~HasColumn(rides_df, "duration_seconds") THEN
           /\ Raise("KeyError")
           /\ UNCHANGED <<rides_df, calls, hypothesis>>
       ELSE LET parsed == SetColumn(rides_df, "start_ts", ToDatetime(Column(rides_df, "start_ts")))
                window == select_window(parsed)
            IN  /\ Goto("done")
                /\ rides_df' = parsed
                /\ calls' = [calls EXCEPT !.to_datetime = @ + 1]
                /\ rides_saturdays' = window
                /\ good_weather_durations' = partition_by_weather(window, "Good")
                /\ bad_weather_durations' = partition_by_weather(window, "Bad")
                /\ t_stat' = welch_t_test(window)
    /\ UNCHANGED <<env, stdout, taxi_df, neighborhood_df, missing_summary_df, aggregates>>

Next ==
    \/ ImportsCell
    \/ LoaderCell
    \/ LoadCleanCell
    \/ InfoCell
    \/ MissingCell
    \/ SortTaxiCell
    \/ TopNeighCell
    \/ HypothesisCell

Spec == Init /\ [][Next]_vars

----------------------------------------------------------------------------
(* Properties.                                                             *)

Has(cell) == cell \in Range(executed)

\* The j-th smallest element of a set of indices.
Nth(S, j) == CHOOSE i \in S : Cardinality({k \in S : k <= i}) = j

\* The subsequence of s at the indices S, in the order of s.
AtIndices(s, S) == [j \in 1..Cardinality(S) |-> s[Nth(S, j)]]

NonIncreasing(rows, k) == \A i \in 1..(Len(rows) - 1) : rows[i][k] >= rows[i + 1][k]

AllLower(df) == \A i \in DOMAIN df.columns : df.columns[i] \in Labels

\* C1: whenever a file is missing in the working directory and a file is
\* missing in /mnt/data, the run prints the message and halts there: no cell
\* after the loader cell is executed and no exception is left unhandled.
C1_BothMissingHalts ==
    (primary # Files /\ secondary # Files /\ Has("loader")) =>
        /\ NotFoundMessage \in Range(stdout)
        /\ error = "none"
        /\ executed = <<"imports", "loader">>

\* C2: whenever the three files are absent from the working directory and
\* present in /mnt/data, the three tables are those of /mnt/data and the run
\* goes on past the load without a FileNotFoundError.
C2_SecondaryUsed ==
    (primary = {} /\ secondary = Files /\ Has("loader")) =>
        /\ error = "none"
        /\ pc # "halted"
        /\ taxi_df.loc = "secondary"
        /\ neighborhood_df.loc = "secondary"
        /\ rides_df.loc = "secondary"

\* C3: when the loader cell has finished, either the three tables are bound
\* and come from one directory, or none of them is bound.
C3_NoPartialLoad ==
    (pc = "load_clean") =>
        \/ AllBound /\ taxi_df.loc = neighborhood_df.loc /\ neighborhood_df.loc = rides_df.loc
        \/ ~IsBound(taxi_df) /\ ~IsBound(neighborhood_df) /\ ~IsBound(rides_df)

CellOrder == <<"imports", "loader", "load_clean", "info", "missing", "sort_taxi",
               "top_neigh", "hypothesis">>

\* C4: the cells are executed at most once each and in their order, each file
\* is read from a given directory at most once, and the timestamp column is
\* parsed at most once.
C4_SingleInvocation ==
    /\ Len(executed) <= Len(CellOrder)
    /\ executed = SubSeq(CellOrder, 1, Len(executed))
    /\ \A k \in DOMAIN calls.read_csv : calls.read_csv[k] <= 1
    /\ calls.to_datetime <= 1

\* The Saturdays among the dates of the modelled rides, from the calendar.
Saturdays == {<<2016, 11, 5>>, <<2017, 10, 28>>, <<2017, 11, 4>>, <<2017, 11, 11>>,
              <<2017, 11, 18>>, <<2017, 11, 25>>, <<2017, 12, 2>>}

\* A ride's text timestamp is on a Saturday of 2017-11-01 .. 2017-11-30.
InNovemberSaturday(t) ==
    /\ <<t.y, t.m, t.d>> \in Saturdays
    /\ t.y = 2017 /\ t.m = 11 /\ 1 <= t.d /\ t.d <= 30

WindowIndices == {i \in DOMAIN csv[F07].rows : InNovemberSaturday(csv[F07].rows[i][1])}

\* C5: rides_saturdays holds exactly the rides of the file that start on a
\* Saturday whose calendar date is in 2017-11-01 .. 2017-11-30, whatever the
\* time of day, in the order of the file.
C5_SelectWindowExact ==
    Has("hypothesis") =>
        /\ error = "none"
        /\ rides_saturdays.rows = AtIndices(rides_df.rows, WindowIndices)
        /\ \A i \in DOMAIN rides_df.rows :
               rides_df.rows[i] = [csv[F07].rows[i] EXCEPT ![1] = rides_df.rows[i][1]]

C5_Witness ==
    /\ pc = "done"
    /\ Len(rides_saturdays.rows) = 1
    /\ Len(rides_df.rows) = 2
    /\ \E i \in DOMAIN csv[F07].rows : csv[F07].rows[i][1] = Text(2017, 11, 30, 12)

\* C6: whatever the casing of the three headers, the load-and-clean cell
\* succeeds and leaves the three tables with lower-case labels and a parsed
\* start_ts column.
C6_CaseInsensitiveLoad ==
    (primary = Files /\ Has("load_clean")) =>
        /\ error = "none"
        /\ AllLower(taxi_df) /\ AllLower(neighborhood_df) /\ AllLower(rides_df)
        /\ HasColumn(rides_df, "start_ts")
        /\ \A i \in DOMAIN rides_df.rows : rides_df.rows[i][1].kind = "Timestamp"

\* C7: top_neighborhoods has min(10, number of rows) rows, rows of the input
\* with the highest average_trips, in non-increasing order of average_trips;
\* an empty table gives an empty result and no failure.
C7_TopNBounds ==
    Has("top_neigh") =>
        /\ error = "none"
        /\ IsBound(top_neighborhoods)
        /\ LET in == neighborhood_df.rows
               out == top_neighborhoods.rows
               rest == BagOfSeq(in) (-) BagOfSeq(out)
           IN  /\ Len(out) = Min(10, Len(in))
               /\ Len(out) <= 10 /\ Len(out) <= Len(in)
               /\ BagOfSeq(out) \sqsubseteq BagOfSeq(in)
               /\ NonIncreasing(out, 2)
               /\ \A r \in BagToSet(rest) : \A i \in DOMAIN out : r[2] <= out[i][2]
               /\ (in = <<>>) => (out = <<>>)

C7_Witness ==
    /\ Has("top_neigh")
    /\ Len(neighborhood_df.rows) > 10
    /\ Len(top_neighborhoods.rows) = 10
    /\ top_neighborhoods.rows # SubSeq(neighborhood_df.rows, 1, 10)

\* C8: sorted_taxi_df is a permutation of taxi_df, rows and multiplicities
\* kept, with trips_amount non-increasing from first to last.
C8_RankPermutation ==
    Has("sort_taxi") =>
        /\ error = "none"
        /\ IsBound(sorted_taxi_df)
        /\ BagOfSeq(sorted_taxi_df.rows) = BagOfSeq(taxi_df.rows)
        /\ Len(sorted_taxi_df.rows) = Len(taxi_df.rows)
        /\ NonIncreasing(sorted_taxi_df.rows, 2)
        /\ \A i \in DOMAIN sorted_taxi_df.rows :
               sorted_taxi_df.rows[1][2] >= sorted_taxi_df.rows[i][2]

C8_Witness ==
    /\ Has("sort_taxi")
    /\ Len(taxi_df.rows) = 3
    /\ sorted_taxi_df.rows # taxi_df.rows
    /\ taxi_df.rows[1] = taxi_df.rows[3]

\* C9: once the load-and-clean cell has finished, no cell writes to taxi_df,
\* neighborhood_df or rides_df.
C9_ImmutableAfterLoad ==
    [][Has("load_clean") => tables' = tables]_vars

WeatherIndices(w) == {i \in DOMAIN rides_saturdays.rows : rides_saturdays.rows[i][2] = w}

Durations(w) ==
    [j \in 1..Cardinality(WeatherIndices(w)) |-> rides_saturdays.rows[Nth(WeatherIndices(w), j)][3]]

Varies(sample) == Len(sample) >= 2 /\ Cardinality(Range(sample)) >= 2

\* C10: the first sample is the durations of the "Good" rides of the window
\* and the second those of the "Bad" rides (rides of other weather are in
\* neither); when both samples have 2 or more values and vary, the statistic
\* is negative exactly when the mean of the first is below the mean of the
\* second, and the test of the swapped samples has the opposite sign and the
\* same magnitude.
C10_TStatSign ==
    (pc = "done") =>
        /\ good_weather_durations = Durations("Good")
        /\ bad_weather_durations = Durations("Bad")
        /\ (Varies(good_weather_durations) /\ Varies(bad_weather_durations)) =>
               /\ t_stat.kind = "finite"
               /\ (t_stat.sign = -1) <=>
                      (SumSeq(good_weather_durations) * Len(bad_weather_durations)
                         < SumSeq(bad_weather_durations) * Len(good_weather_durations))
               /\ LET swapped == TtestInd(bad_weather_durations, good_weather_durations)
                  IN  /\ swapped.kind = "finite"
                      /\ swapped.sign = -t_stat.sign
                      /\ swapped.sq[1] * t_stat.sq[2] = t_stat.sq[1] * swapped.sq[2]

C10_Witness ==
    /\ pc = "done"
    /\ Varies(good_weather_durations) /\ Varies(bad_weather_durations)
    /\ t_stat.kind = "finite" /\ t_stat.sign = -1

====
